---- MODULE Spec2Model ----
(***************************************************************************)
(* XMLModuleStore (common/lib/xmodule/xmodule/modulestore/xml.py): a       *)
(* read-only module store that loads course trees from a data directory,   *)
(* allocates a slug to every element and indexes the nodes by Location.    *)
(*                                                                         *)
(* Strings that the code formats or cleans are sequences of one-character  *)
(* strings, so that '{tag}_{count}'.format(...) and Location.clean are     *)
(* computed character by character.                                        *)
(***************************************************************************)
EXTENDS Integers, Sequences, FiniteSets, TLC

VARIABLES
    listing,    \* os.listdir(data_dir): the entries of the data directory, in order
    eager,      \* XMLModuleStore.eager, the constructor argument
    sysAttr,    \* what ImportSystem's base classes provide for self.data_dir / self.eager
    pc,         \* "new" before __init__, "ready" after it returned, "failed" after it raised
    initErr,    \* the exception __init__ raised ("none" if it returned)
    modules,    \* XMLModuleStore.modules: Location -> node
    systems,    \* per loaded course: the ImportSystem's unnamed_modules and used_slugs
    nodeLoc,    \* node -> the Location of the descriptor built for it
    kids,       \* nodes whose get_children() has been called
    order,      \* registrations in modules, in order: the node and the allocator around it
    loaded,     \* directory entries load_course was called for, in call order
    logged,     \* nodes whose xml text log.exception reported as unparsable
    ret,        \* outcome of the last call of the query / mutation API
    firstSlug   \* history: the slug each element got in the first load that processed it

vars == <<listing, eager, sysAttr, pc, initErr, modules, systems, nodeLoc,
          kids, order, loaded, logged, ret, firstSlug>>

----------------------------------------------------------------------------
(* Bounds of the model *)

\* most elements in one course tree (the root included)
MaxNodes == 3
\* most entries in the data directory
MaxDirs == 2

----------------------------------------------------------------------------
(* Strings *)

\* Python's None, as the value of an absent attribute or Location field
None == <<"None">>

\* str(d) of one decimal digit
Digit(d) == ToString(d)

RECURSIVE Decimal(_)
\* '{count}'.format(count=n): the decimal numeral of n
Decimal(n) == IF n < 10 THEN <<Digit(n)>> ELSE Decimal(n \div 10) \o <<Digit(n % 10)>>

\* '{tag}_{count}'.format(tag=s, count=n) and '{slug}_{count}'.format(slug=s, count=n)
Format(s, n) == s \o <<"_">> \o Decimal(n)

\* characters Location.clean leaves alone: word characters, '.' and '-'
SafeChars == {"a", "b", "c", "h", "p", "0", "1", "2", "3", "4", "5", "6", "7", "8", "9",
              "_", ".", "-"}

\* Location.clean(value): every character unsafe in a key component becomes '_'
clean(value) == [i \in 1..Len(value) |-> IF value[i] \in SafeChars THEN value[i] ELSE "_"]

----------------------------------------------------------------------------
(* The input: course.xml documents and the data directory *)

\* One XML element as process_xml sees it: its tag, its slug and name attributes
\* (None when absent) and whether its text is well-formed XML.
Elem(tag, slug, name, wf) == [tag |-> tag, slug |-> slug, name |-> name, wellformed |-> wf]

\* the root element of course.xml: <course/> or <course name="a"/>
RootKinds == { Elem(<<"c">>, None, None, TRUE),
               Elem(<<"c">>, None, <<"a">>, TRUE) }

\* descendant elements: <h/>, <h name=""/>, <h name="a"/>, <h name="a 1"/>,
\* <h slug="a"/>, and an element whose text does not parse
ElemKinds == { Elem(<<"h">>, None, None, TRUE),
               Elem(<<"h">>, None, <<>>, TRUE),
               Elem(<<"h">>, None, <<"a">>, TRUE),
               Elem(<<"h">>, None, <<"a", " ", "1">>, TRUE),
               Elem(<<"h">>, <<"a">>, None, TRUE),
               Elem(<<"h">>, None, None, FALSE) }

\* parent[i] of element i (0 for the root); children are listed in element order
Parents(n) == { p \in [1..n -> 0..n] :
                  /\ p[1] = 0
                  /\ \A i \in 2..n : p[i] \in {1, i - 1} }

Attrs(n) == { a \in [1..n -> RootKinds \cup ElemKinds] :
                /\ a[1] \in RootKinds
                /\ \A i \in 2..n : a[i] \in ElemKinds }

Trees == UNION { { [parent |-> p, attr |-> a] : p \in Parents(n), a \in Attrs(n) } :
                 n \in 1..MaxNodes }

\* the children of element e of tree t, in document order
RECURSIVE ChildrenFrom(_, _, _)
ChildrenFrom(t, e, i) ==
    IF i > Len(t.parent) THEN <<>>
    ELSE (IF t.parent[i] = e THEN <<i>> ELSE <<>>) \o ChildrenFrom(t, e, i + 1)
Children(t, e) == ChildrenFrom(t, e, 1)

\* the one-element tree <course/>
TinyTree == [parent |-> <<0>>, attr |-> <<Elem(<<"c">>, None, None, TRUE)>>]

\* One entry of the data directory.  isDir: it is a directory of data_dir;
\* cwdIsDir: os.path.isdir(name), which resolves the bare name against the
\* process's working directory; xml: "ok", "missing" (no course.xml to open) or
\* "malformed" (etree.parse fails); org, course: the root's attributes.
Entry(isDir, cwdIsDir, xml, course, tree) ==
    [isDir |-> isDir, cwdIsDir |-> cwdIsDir, xml |-> xml,
     org |-> <<"o">>, course |-> course, tree |-> tree]

\* a data directory holding one course directory with any tree
OneCourse == { <<Entry(TRUE, TRUE, "ok", <<"k">>, t)>> : t \in Trees }

SmallEntries == { Entry(FALSE, FALSE, "missing", <<"k">>, TinyTree),
                  Entry(FALSE, TRUE, "missing", <<"k">>, TinyTree),
                  Entry(TRUE, TRUE, "missing", <<"k">>, TinyTree),
                  Entry(TRUE, TRUE, "malformed", <<"k">>, TinyTree),
                  Entry(TRUE, TRUE, "ok", <<"k">>, TinyTree),
                  Entry(TRUE, TRUE, "ok", <<"j">>, TinyTree),
                  Entry(TRUE, FALSE, "ok", <<"k">>, TinyTree) }

\* data directories of up to MaxDirs small entries
SmallDirs == UNION { [1..n -> SmallEntries] : n \in 0..MaxDirs }

DataDirs == OneCourse \cup SmallDirs

\* a deeper course, <course><h><h/></h><h><h/></h></course>, and its
\* four-element prefix; each h is <h/> or <h slug="a"/>
DeepShape == <<0, 1, 2, 1, 4>>

DeepAttrs(n) ==
    { a \in [1..n -> { Elem(<<"c">>, None, None, TRUE),
                       Elem(<<"h">>, None, None, TRUE),
                       Elem(<<"h">>, <<"a">>, None, TRUE) }] :
        /\ a[1].tag = <<"c">>
        /\ \A i \in 2..n : a[i].tag = <<"h">> }

DeepTrees ==
    UNION { { [parent |-> SubSeq(DeepShape, 1, n), attr |-> a] : a \in DeepAttrs(n) } :
            n \in {Len(DeepShape) - 1, Len(DeepShape)} }

DeepDirs == { <<Entry(TRUE, TRUE, "ok", <<"k">>, t)>> : t \in DeepTrees }

\* a course whose names look like synthesized slugs: <course> with three
\* children, each of them <h/>, <h name="h_2"/> or <h name="h_3"/>
CounterShape == <<0, 1, 1, 1>>

CounterKinds == { Elem(<<"h">>, None, None, TRUE),
                  Elem(<<"h">>, None, <<"h", "_", "2">>, TRUE),
                  Elem(<<"h">>, None, <<"h", "_", "3">>, TRUE) }

CounterTrees ==
    { [parent |-> CounterShape, attr |-> a] :
        a \in { b \in [DOMAIN CounterShape -> RootKinds \cup CounterKinds] :
                  /\ b[1] \in RootKinds
                  /\ \A i \in DOMAIN CounterShape : i > 1 => b[i] \in CounterKinds } }

CounterDirs == { <<Entry(TRUE, TRUE, "ok", <<"k">>, t)>> : t \in CounterTrees }

----------------------------------------------------------------------------
(* The slug allocator: process_xml, lines 78-90 *)

\* a fresh ImportSystem (lines 69-70)
NewSystem == [unnamed_modules |-> 0, used_slugs |-> {}]

\* the allocator with the test of line 78 dropped: an explicit slug is a candidate
\* like a cleaned name and is de-duplicated against used_slugs
AllocateSlug_dedup_explicit(sys, a) ==
    LET named == a.name # None /\ a.name # <<>>
        given == a.slug # None
        n1    == IF given \/ named THEN sys.unnamed_modules ELSE sys.unnamed_modules + 1
        s1    == IF given THEN a.slug
                 ELSE IF named THEN clean(a.name) ELSE Format(a.tag, n1)
        coll  == s1 \in sys.used_slugs
        n2    == IF coll THEN n1 + 1 ELSE n1
        s2    == IF coll THEN Format(s1, n2) ELSE s1
    IN  [slug |-> s2,
         sys  |-> [unnamed_modules |-> n2, used_slugs |-> sys.used_slugs \cup {s2}]]

\* the allocator with Location.clean forgotten on line 80: the raw name is the slug
AllocateSlug_raw_name(sys, a) ==
    IF a.slug # None
    THEN [slug |-> a.slug, sys |-> sys]
    ELSE LET named == a.name # None /\ a.name # <<>>
             n1    == IF named THEN sys.unnamed_modules ELSE sys.unnamed_modules + 1
             s1    == IF named THEN a.name ELSE Format(a.tag, n1)
             coll  == s1 \in sys.used_slugs
             n2    == IF coll THEN n1 + 1 ELSE n1
             s2    == IF coll THEN Format(s1, n2) ELSE s1
         IN  [slug |-> s2,
              sys  |-> [unnamed_modules |-> n2, used_slugs |-> sys.used_slugs \cup {s2}]]

\* the allocator with lines 82 and 83 swapped: the synthesized slug is formatted
\* with the count before the increment
AllocateSlug_count_after(sys, a) ==
    IF a.slug # None
    THEN [slug |-> a.slug, sys |-> sys]
    ELSE LET named == a.name # None /\ a.name # <<>>
             n1    == IF named THEN sys.unnamed_modules ELSE sys.unnamed_modules + 1
             s1    == IF named THEN clean(a.name) ELSE Format(a.tag, sys.unnamed_modules)
             coll  == s1 \in sys.used_slugs
             n2    == IF coll THEN n1 + 1 ELSE n1
             s2    == IF coll THEN Format(s1, n2) ELSE s1
         IN  [slug |-> s2,
              sys  |-> [unnamed_modules |-> n2, used_slugs |-> sys.used_slugs \cup {s2}]]

\* the allocator with line 86 dropped: a collision appends the next number
\* without counting it
AllocateSlug_collision_uncounted(sys, a) ==
    IF a.slug # None
    THEN [slug |-> a.slug, sys |-> sys]
    ELSE LET named == a.name # None /\ a.name # <<>>
             n1    == IF named THEN sys.unnamed_modules ELSE sys.unnamed_modules + 1
             s1    == IF named THEN clean(a.name) ELSE Format(a.tag, n1)
             coll  == s1 \in sys.used_slugs
             s2    == IF coll THEN Format(s1, n1 + 1) ELSE s1
         IN  [slug |-> s2,
              sys  |-> [unnamed_modules |-> n1, used_slugs |-> sys.used_slugs \cup {s2}]]

\* Lines 78-90: the slug of element a under allocator state sys, and the
\* allocator state afterwards.
AllocateSlug(sys, a) ==
    IF a.slug # None
    THEN [slug |-> a.slug, sys |-> sys]
    ELSE LET named == a.name # None /\ a.name # <<>>
             n1    == IF named THEN sys.unnamed_modules ELSE sys.unnamed_modules + 1
             s1    == IF named THEN clean(a.name) ELSE Format(a.tag, n1)
             coll  == s1 \in sys.used_slugs
             n2    == IF coll THEN n1 + 1 ELSE n1
             s2    == IF coll THEN Format(s1, n2) ELSE s1
         IN  [slug |-> s2,
              sys  |-> [unnamed_modules |-> n2, used_slugs |-> sys.used_slugs \cup {s2}]]

----------------------------------------------------------------------------
(* Locations and the Module Index *)

\* Location(org, course, category, slug, revision)
Loc(org, course, category, slug, revision) ==
    [org |-> org, course |-> course, category |-> category, slug |-> slug,
     revision |-> revision]

\* Location(location) raises InsufficientSpecificationError when a field other
\* than revision is None
Underspecified(l) ==
    l.org = None \/ l.course = None \/ l.category = None \/ l.slug = None

\* the empty dict of line 35
NoModules == [l \in {} |-> <<0, 0>>]

\* modulestore.modules[location] = module (line 93): insert or overwrite
Put(m, l, node) == [k \in DOMAIN m \cup {l} |-> IF k = l THEN node ELSE m[k]]

\* the same for the maps the model keeps beside the index
Bind(f, k, v) == [x \in DOMAIN f \cup {k} |-> IF x = k THEN v ELSE f[x]]

Range(f) == { f[x] : x \in DOMAIN f }

----------------------------------------------------------------------------
(* Loading.  A load threads the record                                     *)
(*   [modules, systems, nodeLoc, kids, order, loaded, logged, err]         *)
(* through the calls; err # "none" is an exception on its way up.          *)

\* XModuleDescriptor.load_from_xml(xml, system, org, course, default_class):
\* the descriptor's Location; its children stay unparsed until get_children()
load_from_xml(entry, tag, slug) == Loc(entry.org, entry.course, tag, slug, None)

RECURSIVE process_xml(_, _, _, _, _)
RECURSIVE get_children(_, _, _, _, _)
RECURSIVE ProcessEach(_, _, _, _, _, _)

\* module.get_children(): the first call parses every child element through
\* system.process_xml, in document order; later calls reuse the result
get_children(st, dir, attrs, d, e) ==
    IF <<d, e>> \in st.kids THEN st
    ELSE ProcessEach([st EXCEPT !.kids = @ \cup {<<d, e>>}], dir, attrs, d,
                     Children(dir[d].tree, e), 1)

ProcessEach(st, dir, attrs, d, cs, i) ==
    IF i > Len(cs) \/ st.err # "none" THEN st
    ELSE ProcessEach(process_xml(st, dir, attrs, d, cs[i]), dir, attrs, d, cs, i + 1)

\* process_xml with the count of line 82 taken before the text is parsed: a
\* parse failure leaves the counter one higher
process_xml_count_first(st, dir, attrs, d, e) ==
    LET a == dir[d].tree.attr[e] IN
    IF ~a.wellformed
    THEN [st EXCEPT !.logged = @ \cup {<<d, e>>}, !.err = "XMLSyntaxError",
                    !.systems[d].unnamed_modules = @ + 1]
    ELSE LET al  == AllocateSlug(st.systems[d], a)
             loc == load_from_xml(dir[d], a.tag, al.slug)
             st1 == [st EXCEPT !.systems[d] = al.sys,
                               !.modules = Put(@, loc, <<d, e>>),
                               !.nodeLoc = Bind(@, <<d, e>>, loc),
                               !.order = Append(@, [node |-> <<d, e>>,
                                                    before |-> st.systems[d],
                                                    after |-> al.sys])]
         IN  IF attrs.eager = "missing" THEN [st1 EXCEPT !.err = "AttributeError"]
             ELSE IF attrs.eager = "true" THEN get_children(st1, dir, attrs, d, e)
             ELSE st1

\* process_xml with lines 95-96 moved before line 78: the children are read
\* first and the node is given its slug and registered after them
process_xml_postorder(st, dir, attrs, d, e) ==
    LET a == dir[d].tree.attr[e] IN
    IF ~a.wellformed
    THEN [st EXCEPT !.logged = @ \cup {<<d, e>>}, !.err = "XMLSyntaxError"]
    ELSE IF attrs.eager = "missing" THEN [st EXCEPT !.err = "AttributeError"]
    ELSE LET st0 == IF attrs.eager = "true" THEN get_children(st, dir, attrs, d, e)
                    ELSE st
             al  == AllocateSlug(st0.systems[d], a)
             loc == load_from_xml(dir[d], a.tag, al.slug)
         IN  IF st0.err # "none" THEN st0
             ELSE [st0 EXCEPT !.systems[d] = al.sys,
                              !.modules = Put(@, loc, <<d, e>>),
                              !.nodeLoc = Bind(@, <<d, e>>, loc),
                              !.order = Append(@, [node |-> <<d, e>>,
                                                   before |-> st0.systems[d],
                                                   after |-> al.sys])]

\* ImportSystem.process_xml (lines 72-97) on the text of element e of the
\* course in directory entry d
process_xml(st, dir, attrs, d, e) ==
    LET a == dir[d].tree.attr[e] IN
    IF ~a.wellformed
    THEN \* lines 73-77: log the text, re-raise
         [st EXCEPT !.logged = @ \cup {<<d, e>>}, !.err = "XMLSyntaxError"]
    ELSE LET al  == AllocateSlug(st.systems[d], a)              \* lines 78-90
             loc == load_from_xml(dir[d], a.tag, al.slug)       \* line 92
             st1 == [st EXCEPT !.systems[d] = al.sys,
                               !.modules = Put(@, loc, <<d, e>>),   \* line 93
                               !.nodeLoc = Bind(@, <<d, e>>, loc),
                               !.order = Append(@, [node |-> <<d, e>>,
                                                    before |-> st.systems[d],
                                                    after |-> al.sys])]
         IN  \* lines 95-96: self is the ImportSystem
             IF attrs.eager = "missing" THEN [st1 EXCEPT !.err = "AttributeError"]
             ELSE IF attrs.eager = "true" THEN get_children(st1, dir, attrs, d, e)
             ELSE st1

\* load_course with one allocator for the whole store instead of one per call:
\* a course carries on from the counter and the slugs of the course before it
load_course_global_system(st, dir, attrs, d) ==
    LET st0  == [st EXCEPT !.loaded = Append(@, d)]
        prev == IF st.loaded # <<>> /\ st.loaded[Len(st.loaded)] \in DOMAIN st.systems
                THEN st.systems[st.loaded[Len(st.loaded)]]
                ELSE NewSystem
    IN  IF dir[d].xml = "missing" THEN [st0 EXCEPT !.err = "IOError"]
        ELSE IF dir[d].xml = "malformed" THEN [st0 EXCEPT !.err = "XMLSyntaxError"]
        ELSE IF attrs.data_dir = "missing" THEN [st0 EXCEPT !.err = "AttributeError"]
        ELSE process_xml([st0 EXCEPT !.systems = Bind(@, d, prev)], dir, attrs, d, 1)

\* XMLModuleStore.load_course (lines 51-108) for directory entry d
load_course(st, dir, attrs, d) ==
    LET st0 == [st EXCEPT !.loaded = Append(@, d)] IN
    IF dir[d].xml = "missing" THEN [st0 EXCEPT !.err = "IOError"]              \* line 58
    ELSE IF dir[d].xml = "malformed" THEN [st0 EXCEPT !.err = "XMLSyntaxError"]  \* line 60
    ELSE IF attrs.data_dir = "missing" THEN [st0 EXCEPT !.err = "AttributeError"] \* line 102
    ELSE process_xml([st0 EXCEPT !.systems = Bind(@, d, NewSystem)], dir, attrs, d, 1)

RECURSIVE LoadFrom_skip_bad(_, _, _, _)
\* the loop with a try/except around line 49: a course that fails to load is
\* skipped and the next entry is loaded
LoadFrom_skip_bad(st, dir, attrs, i) ==
    IF i > Len(dir) THEN st
    ELSE IF ~dir[i].cwdIsDir THEN LoadFrom_skip_bad(st, dir, attrs, i + 1)
    ELSE LoadFrom_skip_bad([load_course(st, dir, attrs, i) EXCEPT !.err = "none"],
                           dir, attrs, i + 1)

RECURSIVE LoadFrom(_, _, _, _)
\* the loop of lines 45-49 from entry i on
LoadFrom(st, dir, attrs, i) ==
    IF i > Len(dir) \/ st.err # "none" THEN st
    ELSE IF ~dir[i].cwdIsDir THEN LoadFrom(st, dir, attrs, i + 1)      \* lines 46-47
    ELSE LoadFrom(load_course(st, dir, attrs, i), dir, attrs, i + 1)   \* line 49

\* lines 35-36: the state __init__ starts loading from
EmptyStore ==
    [modules |-> NoModules, systems |-> [d \in {} |-> NewSystem],
     nodeLoc |-> [n \in {} |-> None], kids |-> {}, order |-> <<>>, loaded |-> <<>>,
     logged |-> {}, err |-> "none"]

\* XMLModuleStore.__init__ (lines 24-49)
StoreInit(dir, attrs) == LoadFrom(EmptyStore, dir, attrs, 1)

----------------------------------------------------------------------------
(* The state machine *)

\* Outcomes of reading self.data_dir (line 102) and self.eager (line 95) on the
\* ImportSystem: the class never assigns them, so they are whatever its base
\* classes provide, or an AttributeError when they provide nothing.
SysAttrs == { [data_dir |-> "missing", eager |-> "missing"],
              [data_dir |-> "present", eager |-> "missing"],
              [data_dir |-> "present", eager |-> "true"],
              [data_dir |-> "present", eager |-> "false"] }

NoRet == [op |-> "none", arg |-> None, err |-> "none", val |-> <<0, 0>>]

Current ==
    [modules |-> modules, systems |-> systems, nodeLoc |-> nodeLoc, kids |-> kids,
     order |-> order, loaded |-> loaded, logged |-> logged, err |-> "none"]

\* the first slug each element ever got, for comparing loads with each other
Remember(first, nl) ==
    [n \in DOMAIN first \cup DOMAIN nl |->
        IF n \in DOMAIN first THEN first[n] ELSE nl[n].slug]

Install(st) ==
    /\ modules' = st.modules
    /\ systems' = st.systems
    /\ nodeLoc' = st.nodeLoc
    /\ kids' = st.kids
    /\ order' = st.order
    /\ loaded' = st.loaded
    /\ logged' = st.logged
    /\ firstSlug' = Remember(firstSlug, st.nodeLoc)

Init ==
    /\ listing \in DataDirs
    /\ eager \in BOOLEAN
    /\ sysAttr \in SysAttrs
    /\ pc = "new"
    /\ initErr = "none"
    /\ modules = NoModules
    /\ systems = [d \in {} |-> NewSystem]
    /\ nodeLoc = [n \in {} |-> None]
    /\ kids = {}
    /\ order = <<>>
    /\ loaded = <<>>
    /\ logged = {}
    /\ ret = NoRet
    /\ firstSlug = [n \in {} |-> None]

\* XMLModuleStore(data_dir, eager=eager)
Construct ==
    /\ pc = "new"
    /\ LET st == StoreInit(listing, sysAttr) IN
         /\ Install(st)
         /\ initErr' = st.err
         /\ pc' = IF st.err = "none" THEN "ready" ELSE "failed"
    /\ UNCHANGED <<listing, eager, sysAttr, ret>>

\* Locations that callers look up without having got them from the store
Probes == { Loc(<<"o">>, <<"k">>, <<"h">>, <<"a">>, None),
            Loc(<<"o">>, <<"k">>, <<"h">>, <<"h", "_", "2">>, None),
            Loc(<<"o">>, <<"k">>, <<"h">>, <<"a">>, <<"r">>),
            Loc(<<"o">>, <<"k">>, <<"h">>, None, None) }

\* get_item resolving "the most recent revision": the revision asked for is
\* dropped before the lookup
get_item_any_revision(location) ==
    LET l == [location EXCEPT !.revision = None] IN
    IF Underspecified(location)
    THEN [op |-> "get_item", arg |-> location,
          err |-> "InsufficientSpecificationError", val |-> <<0, 0>>]
    ELSE IF l \in DOMAIN modules
    THEN [op |-> "get_item", arg |-> location, err |-> "none", val |-> modules[l]]
    ELSE [op |-> "get_item", arg |-> location,
          err |-> "ItemNotFoundError", val |-> <<0, 0>>]

\* XMLModuleStore.get_item(location) (lines 110-126)
get_item(location) ==
    IF Underspecified(location)                                      \* line 122
    THEN [op |-> "get_item", arg |-> location,
          err |-> "InsufficientSpecificationError", val |-> <<0, 0>>]
    ELSE IF location \in DOMAIN modules                              \* line 124
    THEN [op |-> "get_item", arg |-> location, err |-> "none", val |-> modules[location]]
    ELSE [op |-> "get_item", arg |-> location,                       \* lines 125-126
          err |-> "ItemNotFoundError", val |-> <<0, 0>>]

GetItem ==
    /\ pc = "ready"
    /\ \E location \in DOMAIN modules \cup Probes : ret' = get_item(location)
    /\ UNCHANGED <<listing, eager, sysAttr, pc, initErr, modules, systems, nodeLoc,
                   kids, order, loaded, logged, firstSlug>>

\* a caller reads the children of a node it got from the store: module.get_children()
GetChildren ==
    /\ pc = "ready"
    /\ \E n \in Range(modules) \ kids :
         LET st == get_children(Current, listing, sysAttr, n[1], n[2]) IN
           /\ Install(st)
           /\ ret' = [op |-> "get_children", arg |-> nodeLoc[n], err |-> st.err,
                      val |-> n]
    /\ UNCHANGED <<listing, eager, sysAttr, pc, initErr>>

\* XMLModuleStore.get_courses() (lines 128-133): settings.COURSES
GetCourses ==
    /\ pc = "ready"
    /\ ret' = [op |-> "get_courses", arg |-> None, err |-> "none", val |-> <<0, 0>>]
    /\ UNCHANGED <<listing, eager, sysAttr, pc, initErr, modules, systems, nodeLoc,
                   kids, order, loaded, logged, firstSlug>>

\* the body shared by the four mutation methods: raise NotImplementedError
read_only(op, m) ==
    [modules |-> m,
     ret |-> [op |-> op, arg |-> None, err |-> "NotImplementedError", val |-> <<0, 0>>]]

\* create_item as a writable store would have it: the location gets an entry
create_item_stores(m, location) ==
    [modules |-> Put(m, location, <<0, 0>>),
     ret |-> [op |-> "create_item", arg |-> None, err |-> "none", val |-> <<0, 0>>]]

\* create_item(location) (lines 135-136)
create_item(m, location) == read_only("create_item", m)
\* update_item(location, data) (lines 138-146)
update_item(m, location, data) == read_only("update_item", m)
\* update_children(location, children) (lines 148-156)
update_children(m, location, children) == read_only("update_children", m)
\* update_metadata(location, metadata) (lines 158-166)
update_metadata(m, location, metadata) == read_only("update_metadata", m)

\* locations passed to the mutation methods: a full one and an underspecified one
Targets == { Loc(<<"o">>, <<"k">>, <<"h">>, <<"a">>, None),
             Loc(<<"o">>, <<"k">>, <<"h">>, None, None) }

\* values passed as data, children or metadata
Payloads == { <<>>, <<Loc(<<"o">>, <<"k">>, <<"h">>, <<"a">>, None)>> }

Mutation(r) ==
    /\ modules' = r.modules
    /\ ret' = r.ret
    /\ UNCHANGED <<listing, eager, sysAttr, pc, initErr, systems, nodeLoc,
                   kids, order, loaded, logged, firstSlug>>

CreateItem ==
    /\ pc = "ready"
    /\ \E location \in Targets : Mutation(create_item(modules, location))

UpdateItem ==
    /\ pc = "ready"
    /\ \E location \in Targets, data \in Payloads :
         Mutation(update_item(modules, location, data))

UpdateChildren ==
    /\ pc = "ready"
    /\ \E location \in Targets, children \in Payloads :
         Mutation(update_children(modules, location, children))

UpdateMetadata ==
    /\ pc = "ready"
    /\ \E location \in Targets, metadata \in Payloads :
         Mutation(update_metadata(modules, location, metadata))

Next ==
    \/ Construct
    \/ GetItem
    \/ GetChildren
    \/ GetCourses
    \/ CreateItem
    \/ UpdateItem
    \/ UpdateChildren
    \/ UpdateMetadata

Spec == Init /\ [][Next]_vars

\* the same store over the deeper courses
InitDeep ==
    /\ listing \in DeepDirs
    /\ eager \in BOOLEAN
    /\ sysAttr \in SysAttrs
    /\ pc = "new"
    /\ initErr = "none"
    /\ modules = NoModules
    /\ systems = [d \in {} |-> NewSystem]
    /\ nodeLoc = [n \in {} |-> None]
    /\ kids = {}
    /\ order = <<>>
    /\ loaded = <<>>
    /\ logged = {}
    /\ ret = NoRet
    /\ firstSlug = [n \in {} |-> None]

\* The caller drops the store and will construct another one over the same
\* data directory, with an eager flag of its choice: __init__ starts again
\* from lines 33-36.  Only the history of first slugs is kept.
Reconstruct ==
    /\ pc \in {"ready", "failed"}
    /\ pc' = "new"
    /\ eager' \in BOOLEAN
    /\ initErr' = "none"
    /\ modules' = NoModules
    /\ systems' = [d \in {} |-> NewSystem]
    /\ nodeLoc' = [n \in {} |-> None]
    /\ kids' = {}
    /\ order' = <<>>
    /\ loaded' = <<>>
    /\ logged' = {}
    /\ ret' = NoRet
    /\ UNCHANGED <<listing, sysAttr, firstSlug>>

NextReload ==
    \/ Next
    \/ Reconstruct

\* stores constructed one after the other over the same data directory
SpecReload == InitDeep /\ [][NextReload]_vars

\* the same store over the courses whose names look like synthesized slugs
InitCounter ==
    /\ listing \in CounterDirs
    /\ eager \in BOOLEAN
    /\ sysAttr \in SysAttrs
    /\ pc = "new"
    /\ initErr = "none"
    /\ modules = NoModules
    /\ systems = [d \in {} |-> NewSystem]
    /\ nodeLoc = [n \in {} |-> None]
    /\ kids = {}
    /\ order = <<>>
    /\ loaded = <<>>
    /\ logged = {}
    /\ ret = NoRet
    /\ firstSlug = [n \in {} |-> None]

SpecCounter == InitCounter /\ [][Next]_vars


----------------------------------------------------------------------------
(* Properties *)

\* the XML element a node was built from
Attr(n) == listing[n[1]].tree.attr[n[2]]

\* the nodes process_xml has built and registered
Processed == DOMAIN nodeLoc

SameCategory(l1, l2) ==
    l1.org = l2.org /\ l1.course = l2.course /\ l1.category = l2.category

\* C1 (slug uniqueness): two distinct nodes of one course load that share
\* (organization, course, category) have different slugs.
C1_SlugUniqueness ==
    \A n1 \in Processed : \A n2 \in Processed :
        (n1 # n2 /\ n1[1] = n2[1] /\ SameCategory(nodeLoc[n1], nodeLoc[n2]))
            => nodeLoc[n1].slug # nodeLoc[n2].slug

\* C2 (lookup round-trip): once the store is constructed, get_item with the
\* Location of a processed element returns the node built for that element.
C2_LookupRoundTrip ==
    (pc = "ready" /\ ret.op = "get_item") =>
        \A n \in Processed :
            ret.arg = nodeLoc[n] => (ret.err = "none" /\ ret.val = n)

\* the course of directory entry d holds text that is not well-formed XML
HasMalformed(d) ==
    \/ listing[d].xml = "malformed"
    \/ \E e \in DOMAIN listing[d].tree.attr : ~listing[d].tree.attr[e].wellformed

\* C3 (malformed XML is all-or-nothing): where the descriptor system loads
\* eagerly, a course with a malformed course.xml or descendant makes the load
\* raise the parse error and leaves no node of that course in the index.
C3_MalformedAllOrNothing ==
    (pc # "new" /\ sysAttr.eager = "true") =>
        \A i \in DOMAIN loaded :
            HasMalformed(loaded[i]) =>
                /\ pc = "failed"
                /\ initErr = "XMLSyntaxError"
                /\ \A n \in Range(modules) : n[1] # loaded[i]

MutationOps == {"create_item", "update_item", "update_children", "update_metadata"}

\* C4 (read-only enforcement): every call of create_item, update_item,
\* update_children or update_metadata ends in the read-only error and leaves
\* the index as it was.
C4_ReadOnly ==
    [][ret'.op \in MutationOps =>
          (ret'.err = "NotImplementedError" /\ modules' = modules)]_vars

\* a mutation was attempted on a store that holds a descendant node
C4_Witness ==
    /\ ret.op \in MutationOps
    /\ ret.err = "NotImplementedError"
    /\ \E n \in Range(modules) : n[2] > 1

\* get_item succeeds on the Location of every element of every loaded course
AllFound ==
    \A i \in DOMAIN loaded : \A e \in DOMAIN listing[loaded[i]].tree.attr :
        /\ <<loaded[i], e>> \in Processed
        /\ get_item(nodeLoc[<<loaded[i], e>>]).err = "none"

\* no registered node is left whose children a caller could still read: nothing
\* more will ever be constructed in this store
TraversalDone == Range(modules) \subseteq kids

\* C5 (lazy loading does not lose nodes): in a store built with eager=False,
\* get_item succeeds on the Location of every element of the loaded courses at
\* the latest when the callers have read the children of every node the store
\* hands out.
C5_LazyFindsDescendants ==
    (pc = "ready" /\ ~eager /\ TraversalDone) => AllFound

\* C7 (deterministic, stable slugs): every load of the same course XML gives
\* each element the slug its first load gave it.
C7_StableSlugs ==
    \A n \in Processed : nodeLoc[n].slug = firstSlug[n]

\* every element of the course of directory entry d
Elements(d) == { <<d, e>> : e \in DOMAIN listing[d].tree.attr }

\* C6 (eager completeness): when a store built with eager=True has been
\* constructed, every element of every loaded course has a node in the index.
C6_EagerComplete ==
    (pc = "ready" /\ eager) =>
        \A i \in DOMAIN loaded : \A n \in Elements(loaded[i]) :
            n \in Processed /\ nodeLoc[n] \in DOMAIN modules

\* C8 (not-found lookup): get_item with a fully specified Location that no load
\* produced raises ItemNotFoundError and leaves the index as it was.
C8_NotFound ==
    [][(/\ ret'.op = "get_item"
        /\ ~Underspecified(ret'.arg)
        /\ \A n \in Processed : nodeLoc[n] # ret'.arg)
          => (ret'.err = "ItemNotFoundError" /\ modules' = modules)]_vars

\* a lookup of a revision of a registered node's key, which no load produced
C8_Witness ==
    /\ ret.op = "get_item"
    /\ ret.err = "ItemNotFoundError"
    /\ ret.arg.revision # None
    /\ [ret.arg EXCEPT !.revision = None] \in DOMAIN modules

\* C9 (explicit slug preserved): a node built from an element with an explicit
\* slug attribute has exactly that slug, whatever the allocator held.
C9_ExplicitSlugPreserved ==
    \A n \in Processed : Attr(n).slug # None => nodeLoc[n].slug = Attr(n).slug

\* an explicit slug was processed when the allocator had counted a node and
\* had already given out that very slug
C9_Witness ==
    \E i \in DOMAIN order :
        /\ Attr(order[i].node).slug # None
        /\ order[i].before.unnamed_modules > 0
        /\ Attr(order[i].node).slug \in order[i].before.used_slugs
        /\ nodeLoc[order[i].node].slug = Attr(order[i].node).slug

\* the element has no slug attribute and a non-empty name
NamedOnly(a) == a.slug = None /\ a.name # None /\ a.name # <<>>

\* C10 (name-derived slug): an element without slug and with a non-empty name
\* whose cleaned name is unused gets exactly the cleaned name, and the
\* unnamed-node counter stays as it was.
C10_NameDerived ==
    \A i \in DOMAIN order :
        (/\ NamedOnly(Attr(order[i].node))
         /\ clean(Attr(order[i].node).name) \notin order[i].before.used_slugs)
            => /\ nodeLoc[order[i].node].slug = clean(Attr(order[i].node).name)
               /\ order[i].after.unnamed_modules = order[i].before.unnamed_modules

\* a name that cleaning changes was processed after the counter had moved
C10_Witness ==
    \E i \in DOMAIN order :
        /\ NamedOnly(Attr(order[i].node))
        /\ clean(Attr(order[i].node).name) # Attr(order[i].node).name
        /\ clean(Attr(order[i].node).name) \notin order[i].before.used_slugs
        /\ order[i].before.unnamed_modules > 0
        /\ nodeLoc[order[i].node].slug = <<"a", "_", "1">>

\* the element has neither a slug attribute nor a name
Anonymous(a) == a.slug = None /\ (a.name = None \/ a.name = <<>>)

\* no element of the course of directory entry d has a slug or a name
AllAnonymous(d) ==
    \A e \in DOMAIN listing[d].tree.attr : Anonymous(listing[d].tree.attr[e])

\* how many of the first i registrations belong to the course of entry d
RECURSIVE CountOf(_, _)
CountOf(d, i) ==
    IF i = 0 THEN 0
    ELSE CountOf(d, i - 1) + (IF order[i].node[1] = d THEN 1 ELSE 0)

\* C11 (unnamed synthesis): in a load where no element has a slug or a name,
\* the n-th element processed, of tag t, gets the slug "t_n".
C11_UnnamedSynthesis ==
    \A i \in DOMAIN order :
        AllAnonymous(order[i].node[1]) =>
            nodeLoc[order[i].node].slug =
                Format(Attr(order[i].node).tag, CountOf(order[i].node[1], i))

\* two siblings without slug or name were processed second and third in their
\* load and got h_2 and h_3
C11_Witness ==
    \E i \in DOMAIN order : \E j \in DOMAIN order :
        /\ i < j
        /\ order[i].node[1] = order[j].node[1]
        /\ AllAnonymous(order[i].node[1])
        /\ listing[order[i].node[1]].tree.parent[order[i].node[2]] = 1
        /\ listing[order[j].node[1]].tree.parent[order[j].node[2]] = 1
        /\ nodeLoc[order[i].node].slug = <<"h", "_", "2">>
        /\ nodeLoc[order[j].node].slug = <<"h", "_", "3">>

\* the parent element of a node (0 for a root)
ParentOf(n) == listing[n[1]].tree.parent[n[2]]

\* C11 as first stated: in a load where no element has a slug or a name, the
\* first two sibling elements processed get "t_1" and "t_2".
C11_SiblingsFromOne ==
    \A i \in DOMAIN order : \A j \in DOMAIN order :
        (/\ i < j
         /\ order[i].node[1] = order[j].node[1]
         /\ AllAnonymous(order[i].node[1])
         /\ ParentOf(order[i].node) # 0
         /\ ParentOf(order[i].node) = ParentOf(order[j].node)
         /\ \A k \in 1..(j - 1) :
              (k # i /\ order[k].node[1] = order[i].node[1])
                  => ParentOf(order[k].node) # ParentOf(order[i].node))
            => /\ nodeLoc[order[i].node].slug = Format(Attr(order[i].node).tag, 1)
               /\ nodeLoc[order[j].node].slug = Format(Attr(order[j].node).tag, 2)

\* the course.xml of directory entry d cannot be opened or parsed
BadCourse(d) == listing[d].xml \in {"missing", "malformed"}

\* what opening or parsing that course.xml raises
ErrorOf(d) == IF listing[d].xml = "missing" THEN "IOError" ELSE "XMLSyntaxError"

\* C12 (abort on error): a course directory whose course.xml is missing or
\* malformed makes the constructor raise that error, it is the last directory
\* load_course is called for, and no directory is loaded twice.
C12_AbortOnError ==
    pc # "new" =>
        /\ \A i \in DOMAIN loaded :
              BadCourse(loaded[i]) =>
                  /\ pc = "failed"
                  /\ initErr = ErrorOf(loaded[i])
                  /\ i = Len(loaded)
        /\ \A i \in DOMAIN loaded : \A j \in DOMAIN loaded :
              loaded[i] = loaded[j] => i = j

\* the first directory failed and a loadable course after it was left alone
C12_Witness ==
    /\ pc = "failed"
    /\ Len(listing) >= 2
    /\ loaded = <<1>>
    /\ BadCourse(1)
    /\ listing[2].cwdIsDir
    /\ listing[2].xml = "ok"
    /\ modules = NoModules

\* the directory entries load_course was called for
LoadedSet == { loaded[i] : i \in DOMAIN loaded }

\* C13 (directory enumeration): load_course is never called for an entry that
\* is not a directory of data_dir, and when the constructor has returned it was
\* called exactly once for every entry that is one, whatever the working
\* directory of the process.
C13_DirectoryEnumeration ==
    /\ \A d \in LoadedSet : listing[d].isDir
    /\ pc = "ready" =>
          /\ \A d \in DOMAIN listing : listing[d].isDir => d \in LoadedSet
          /\ \A i \in DOMAIN loaded : \A j \in DOMAIN loaded :
                loaded[i] = loaded[j] => i = j

\* C14 (collision resolution finds a free slug): the slug emitted for an
\* element without an explicit slug is not in the used-slug set at the moment
\* it is emitted.
C14_EmittedSlugFree ==
    \A i \in DOMAIN order :
        Attr(order[i].node).slug = None =>
            nodeLoc[order[i].node].slug \notin order[i].before.used_slugs

\* C15 (explicit slugs are recorded as used): after an element with explicit
\* slug s has been processed, s is in the used-slug set of its load.
C15_ExplicitRecorded ==
    \A i \in DOMAIN order :
        Attr(order[i].node).slug # None =>
            Attr(order[i].node).slug \in order[i].after.used_slugs

\* the registrations of the course of order[i] that came before order[i]
Earlier(i) == { k \in 1..(i - 1) : order[k].node[1] = order[i].node[1] }

\* the latest of a non-empty set of registrations
Latest(ks) == CHOOSE k \in ks : \A m \in ks : m <= k

\* the registrations of the course of directory entry d
RegistrationsOf(d) == { k \in DOMAIN order : order[k].node[1] = d }

\* C16 (one allocator per course load): the first element of a course is
\* processed with counter 0 and an empty used-slug set, every later element of
\* that course with the counter and set the element before it left behind,
\* whatever other courses were loaded before or in between, and the slug of an
\* element is the one the allocator gives from that state.
C16_AllocatorPerCourse ==
    /\ \A i \in DOMAIN order :
          /\ order[i].before = IF Earlier(i) = {} THEN NewSystem
                               ELSE order[Latest(Earlier(i))].after
          /\ nodeLoc[order[i].node].slug =
                 AllocateSlug(order[i].before, Attr(order[i].node)).slug
    /\ \A d \in DOMAIN systems :
          systems[d] = IF RegistrationsOf(d) = {} THEN NewSystem
                       ELSE order[Latest(RegistrationsOf(d))].after

\* two courses were loaded one after the other and the root of each is c_1
C16_Witness ==
    /\ pc = "ready"
    /\ loaded = <<1, 2>>
    /\ <<1, 1>> \in Processed /\ nodeLoc[<<1, 1>>].slug = <<"c", "_", "1">>
    /\ <<2, 1>> \in Processed /\ nodeLoc[<<2, 1>>].slug = <<"c", "_", "1">>
    /\ systems[1].unnamed_modules = 1
    /\ systems[2].unnamed_modules = 1

\* sequence s ends with sequence t
EndsWith(s, t) ==
    Len(s) >= Len(t) /\ SubSeq(s, Len(s) - Len(t) + 1, Len(s)) = t

\* the first candidate slug of an element without explicit slug (lines 79-83)
Candidate(sys, a) ==
    IF Anonymous(a) THEN Format(a.tag, sys.unnamed_modules + 1) ELSE clean(a.name)

\* how often processing element a from allocator state sys counts: once for a
\* synthesis, once for a collision
Increments(sys, a) ==
    IF a.slug # None THEN 0
    ELSE (IF Anonymous(a) THEN 1 ELSE 0)
         + (IF Candidate(sys, a) \in sys.used_slugs THEN 1 ELSE 0)

\* C17 (shared counter is monotone, its numbers are not reused): within one
\* course load the counter never decreases, it goes up by exactly one for a
\* synthesis and by one for a collision, a slug the allocator numbered ends in
\* the counter value reached, and no two numbered slugs of the load end in the
\* same counter value.
C17_CounterMonotone ==
    /\ \A i \in DOMAIN order :
          /\ order[i].after.unnamed_modules =
                 order[i].before.unnamed_modules
                     + Increments(order[i].before, Attr(order[i].node))
          /\ order[i].after.unnamed_modules > order[i].before.unnamed_modules =>
                 EndsWith(nodeLoc[order[i].node].slug,
                          <<"_">> \o Decimal(order[i].after.unnamed_modules))
    /\ \A i \in DOMAIN order : \A j \in DOMAIN order :
          (i < j /\ order[i].node[1] = order[j].node[1]) =>
              /\ order[i].after.unnamed_modules <= order[j].before.unnamed_modules
              /\ (/\ order[i].after.unnamed_modules > order[i].before.unnamed_modules
                  /\ order[j].after.unnamed_modules > order[j].before.unnamed_modules)
                     => order[i].after.unnamed_modules # order[j].after.unnamed_modules

\* a synthesized slug collided with a name, the counter went up by two, and a
\* later element of the load was numbered as well
C17_Witness ==
    \E i \in DOMAIN order : \E j \in DOMAIN order :
        /\ i < j
        /\ order[i].node[1] = order[j].node[1]
        /\ Anonymous(Attr(order[i].node))
        /\ order[i].after.unnamed_modules = order[i].before.unnamed_modules + 2
        /\ order[j].after.unnamed_modules > order[j].before.unnamed_modules

\* C18 (no mutation after load): once the constructor has returned, no
\* operation changes the Module Index or any allocator's counter and used-slug
\* set.
C18_NoMutationAfterLoad ==
    [][pc = "ready" => (modules' = modules /\ systems' = systems)]_vars

\* element a of tree t is a proper ancestor of element e
RECURSIVE IsAncestor(_, _, _)
IsAncestor(t, a, e) ==
    /\ t.parent[e] # 0
    /\ (t.parent[e] = a \/ IsAncestor(t, a, t.parent[e]))

\* C19 (pre-order registration): a node is given its slug and registered in
\* the index before any of its descendants is, and every node that was
\* constructed is registered, also when the load fails further down.
C19_PreOrder ==
    /\ \A i \in DOMAIN order : \A j \in DOMAIN order :
          (/\ order[i].node[1] = order[j].node[1]
           /\ IsAncestor(listing[order[i].node[1]].tree, order[i].node[2],
                         order[j].node[2]))
              => /\ i < j
                 /\ order[i].after.used_slugs \subseteq order[j].before.used_slugs
    /\ \A e \in Processed :
          /\ \E i \in DOMAIN order : order[i].node = e
          /\ nodeLoc[e] \in DOMAIN modules
          /\ ParentOf(e) # 0 => <<e[1], ParentOf(e)>> \in Processed

\* an eager load registered a course, its child and then its grandchild
C19_Witness ==
    /\ sysAttr.eager = "true"
    /\ pc = "ready"
    /\ \E i \in DOMAIN order : \E j \in DOMAIN order : \E k \in DOMAIN order :
          /\ i < j /\ j < k
          /\ order[i].node[1] = order[j].node[1]
          /\ order[j].node[1] = order[k].node[1]
          /\ ParentOf(order[i].node) = 0
          /\ ParentOf(order[j].node) = order[i].node[2]
          /\ ParentOf(order[k].node) = order[j].node[2]

\* the elements whose text process_xml failed to parse, per course
LoggedIn(d) == { n \in logged : n[1] = d }

\* C20 (a parse failure has no side effect on load state): a call of
\* process_xml on text that is not well-formed XML is logged and raises the
\* parse error, no node is built or registered for that text, and the counter
\* and used-slug set of its course are the ones the last element that did
\* parse left behind.
C20_ParseFailureNoEffect ==
    /\ \A n \in logged :
          /\ n \notin Processed
          /\ \A l \in DOMAIN modules : modules[l] # n
          /\ systems[n[1]] = IF RegistrationsOf(n[1]) = {} THEN NewSystem
                             ELSE order[Latest(RegistrationsOf(n[1]))].after
    /\ (pc = "failed" /\ logged # {}) => initErr = "XMLSyntaxError"
    /\ (/\ ret.op = "get_children"
        /\ \E n \in LoggedIn(ret.val[1]) : ParentOf(n) = ret.val[2])
           => ret.err = "XMLSyntaxError"

\* the load of a course failed on a child's text after two elements had been
\* counted and registered
C20_Witness ==
    /\ pc = "failed"
    /\ \E n \in logged :
          /\ systems[n[1]].unnamed_modules = 2
          /\ Cardinality({ m \in Range(modules) : m[1] = n[1] }) = 2

====
